---- MODULE Spec2Model ----
(***************************************************************************)
(* A model of the nothingbook note application: the Note record, the       *)
(* one-file-per-note Storage, the root controller AppView with its four    *)
(* intent handlers, the SidebarView rename state machine and the           *)
(* EditorView display slot.                                                *)
(***************************************************************************)
EXTENDS Integers, Sequences, FiniteSets, TLC

(***************************************************************************)
(* Bounds of the model.                                                    *)
(***************************************************************************)
\* note files that may already be in the data directory at startup
MaxInit == 1
\* calls of Note::new (each draws a fresh UUID)
MaxCreate == 1
\* latest timestamp carried by a file written before startup
MaxInitTime == 1
\* readings of the clock (chrono::Local::now) after startup
MaxOps == 2

InitIds == 1..MaxInit
Ids == 1..(MaxInit + MaxCreate)
StartTime == MaxInitTime + 1
MaxNow == StartTime + MaxOps

(***************************************************************************)
(* Option<T>: None is the empty sequence, Some(x) the one-element one.     *)
(***************************************************************************)
None == <<>>
Some(x) == <<x>>

(***************************************************************************)
(* Note (note.rs).  Identities are UUID strings in the program; here they  *)
(* are the integers of Ids.  The default title stands for the program's    *)
(* literal default title string.                                           *)
(***************************************************************************)
DefaultTitle == "untitled"
Titles == {"", "b"}

Note(id, title, content, created_at, updated_at) ==
    [id |-> id, title |-> title, content |-> content,
     created_at |-> created_at, updated_at |-> updated_at]

\* Note::new with the UUID and the clock reading it draws
NoteNew(uuid, t) == Note(uuid, DefaultTitle, "", t, t)

(***************************************************************************)
(* Storage (storage.rs).  The data directory maps a file stem to a file:   *)
(* absent, a JSON document, or bytes that do not parse as a Note.          *)
(***************************************************************************)
Absent == [kind |-> "absent", doc |-> <<>>]
Garbage == [kind |-> "garbage", doc |-> <<>>]

\* chrono's serde form of a DateTime: an RFC 3339 string of the instant
EncodeTime(t) == [rfc3339 |-> t]
DecodeTime(s) == s.rfc3339

\* serde_json::to_string_pretty(note)
ToJson(note) ==
    [kind |-> "json",
     doc |-> << [id |-> note.id, title |-> note.title, content |-> note.content,
                 created_at |-> EncodeTime(note.created_at),
                 updated_at |-> EncodeTime(note.updated_at)] >>]

\* serde_json::from_str::<Note>(content): Some(note) or None on a parse error
FromJson(file) ==
    IF file.kind = "json"
    THEN LET d == file.doc[1]
         IN  Some(Note(d.id, d.title, d.content,
                       DecodeTime(d.created_at), DecodeTime(d.updated_at)))
    ELSE None

\* outcomes of fs::write: success, failure before the file is touched,
\* failure after the file was created or truncated
SaveOutcomes == {"ok", "fail_open", "fail_write"}
SaveOk(outcome) == outcome = "ok"

\* save_note that keeps a file that is already there
save_note_keep_existing(d, note, outcome) ==
    CASE outcome = "ok" ->
            IF d[note.id].kind = "absent" THEN [d EXCEPT ![note.id] = ToJson(note)] ELSE d
      [] outcome = "fail_open" -> d
      [] outcome = "fail_write" -> [d EXCEPT ![note.id] = Garbage]

\* Storage::save_note: the directory after the call
save_note(d, note, outcome) ==
    CASE outcome = "ok" -> [d EXCEPT ![note.id] = ToJson(note)]
      [] outcome = "fail_open" -> d
      [] outcome = "fail_write" -> [d EXCEPT ![note.id] = Garbage]

\* what fs::remove_file does when it is called: it removes the file or fails
RemoveOutcomes == {"ok", "fail"}

\* file_path.exists()
Exists(d, note_id) == d[note_id].kind # "absent"

\* delete_note without the exists() test: fs::remove_file fails on a missing file
DeleteResult_no_exists_check(d, note_id, io) ==
    IF Exists(d, note_id) THEN io ELSE "fail"

\* Storage::delete_note: the Result it returns ("ok" or "fail")
DeleteResult(d, note_id, io) ==
    IF Exists(d, note_id) THEN io ELSE "ok"

\* Storage::delete_note: the directory after the call
delete_note_file(d, note_id, io) ==
    IF Exists(d, note_id) /\ io = "ok"
    THEN [d EXCEPT ![note_id] = Absent]
    ELSE d

\* the files fs::read_dir enumerates, and the orders it may yield them in
Entries(d) == {i \in DOMAIN d : Exists(d, i)}
Perms(S) == {p \in [1..Cardinality(S) -> S] : \A i, j \in DOMAIN p : p[i] = p[j] => i = j}

\* the step of a sort with a.updated_at.cmp(&b.updated_at): oldest first
InsertDesc_ascending(x, s) ==
    LET k == Cardinality({i \in DOMAIN s : s[i].updated_at <= x.updated_at})
    IN  SubSeq(s, 1, k) \o <<x>> \o SubSeq(s, k + 1, Len(s))

\* one step of the stable sort: x goes after every element not older than x
InsertDesc(x, s) ==
    LET k == Cardinality({i \in DOMAIN s : s[i].updated_at >= x.updated_at})
    IN  SubSeq(s, 1, k) \o <<x>> \o SubSeq(s, k + 1, Len(s))

RECURSIVE SortByUpdatedDesc(_)
\* notes.sort_by(|a, b| b.updated_at.cmp(&a.updated_at)), a stable sort
SortByUpdatedDesc(s) ==
    IF s = <<>> THEN <<>>
    ELSE InsertDesc(s[Len(s)], SortByUpdatedDesc(SubSeq(s, 1, Len(s) - 1)))

RECURSIVE ParseEntries_stop_at_error(_, _)
\* the loop leaving at the first file that does not parse
ParseEntries_stop_at_error(d, order) ==
    IF order = <<>> THEN <<>>
    ELSE IF FromJson(d[Head(order)]) = None THEN <<>>
    ELSE FromJson(d[Head(order)]) \o ParseEntries_stop_at_error(d, Tail(order))

RECURSIVE ParseEntries(_, _)
\* the loop of load_all_notes: push the notes that parse, skip the others
ParseEntries(d, order) ==
    IF order = <<>> THEN <<>>
    ELSE FromJson(d[Head(order)]) \o ParseEntries(d, Tail(order))

\* Storage::load_all_notes for one enumeration order of the directory
load_all_notes(d, order) == SortByUpdatedDesc(ParseEntries(d, order))

(***************************************************************************)
(* State.                                                                  *)
(***************************************************************************)
VARIABLES
    disk,              \* the data directory: file stem -> file
    notes,             \* AppView.notes
    selected_note_id,  \* AppView.selected_note_id
    current_note,      \* EditorView.current_note
    sb_notes,          \* SidebarView.notes
    sb_selected,       \* SidebarView.selected_note_id
    editing_note_id,   \* SidebarView.editing_note_id
    rename_title,      \* SidebarView.rename_title
    input_state,       \* SidebarView.input_state (None, or Some of its value)
    now,               \* the next reading of chrono::Local::now; the clock
                       \* advances between any two readings
    next_uuid,         \* the next identity Uuid::new_v4 yields
    last               \* the handler that ran last: its arguments, the outcome
                       \* of its disk operation, whether an intent was emitted,
                       \* and AppView's selection when it started

vars == <<disk, notes, selected_note_id, current_note, sb_notes, sb_selected,
          editing_note_id, rename_title, input_state, now, next_uuid, last>>

Ran(op, id, title, outcome, emitted) ==
    [op |-> op, id |-> id, title |-> title, outcome |-> outcome,
     emitted |-> emitted, selected_in |-> selected_note_id]

(***************************************************************************)
(* Helpers over Vec<Note>.                                                 *)
(***************************************************************************)
\* notes.iter().find(|n| n.id == note_id): the index of the first match, 0 if none
FindIndex(ns, note_id) ==
    IF \E i \in DOMAIN ns : ns[i].id = note_id
    THEN CHOOSE i \in DOMAIN ns :
            ns[i].id = note_id /\ \A j \in 1..(i - 1) : ns[j].id # note_id
    ELSE 0

Contains(ns, note_id) == FindIndex(ns, note_id) # 0

\* notes.retain(|n| n.id != note_id)
Retain(ns, note_id) == SelectSeq(ns, LAMBDA n : n.id # note_id)

\* notes.insert(0, new_note)
InsertFront(ns, note) == <<note>> \o ns

\* notes_arc.first().map(|n| n.id.clone())
FirstId(ns) == IF ns = <<>> THEN None ELSE Some(ns[1].id)

(***************************************************************************)
(* The data directories the program can find at startup: every file was    *)
(* written by an earlier run, as <id>.json by save_note, and is a note     *)
(* with updated_at >= created_at or the remains of a failed write.         *)
(***************************************************************************)
InitTimes == 0..MaxInitTime
InitNotes(i) == {Note(i, "a", "c", c, u) : c \in InitTimes, u \in InitTimes}
InitFiles(i) ==
    {Absent, Garbage} \cup {ToJson(n) : n \in {m \in InitNotes(i) : m.updated_at >= m.created_at}}
InitDisks ==
    {d \in [Ids -> UNION {InitFiles(i) : i \in Ids}] :
        /\ \A i \in InitIds : d[i] \in InitFiles(i)
        /\ \A i \in Ids \ InitIds : d[i] = Absent}

(***************************************************************************)
(* AppView::new: Storage::new, load_all_notes, SidebarView::new,           *)
(* EditorView::new, then the first note is selected and displayed.         *)
(***************************************************************************)
Init ==
    /\ disk \in InitDisks
    /\ \E order \in Perms(Entries(disk)) : notes = load_all_notes(disk, order)
    /\ selected_note_id = FirstId(notes)
    /\ current_note = IF notes = <<>> THEN None ELSE Some(notes[1])
    /\ sb_notes = notes
    /\ sb_selected = FirstId(notes)
    /\ editing_note_id = None
    /\ rename_title = ""
    /\ input_state = None
    /\ now = StartTime
    /\ next_uuid = MaxInit + 1
    /\ last = [op |-> "new", id |-> None, title |-> "", outcome |-> "ok",
               emitted |-> FALSE, selected_in |-> None]

(***************************************************************************)
(* AppView's intent handlers (app.rs).                                     *)
(***************************************************************************)
\* create_new_note with the selection left as it was
create_new_note_keep_selection(outcome) ==
    LET new_note == NoteNew(next_uuid, now)
        note_id == new_note.id
    IN  /\ next_uuid <= MaxInit + MaxCreate
        /\ now < MaxNow
        /\ disk' = save_note(disk, new_note, outcome)
        /\ IF ~SaveOk(outcome)
           THEN UNCHANGED <<notes, sb_notes, sb_selected, current_note, selected_note_id>>
           ELSE /\ notes' = InsertFront(notes, new_note)
                /\ sb_notes' = notes'
                /\ sb_selected' = Some(note_id)
                /\ current_note' = Some(new_note)
                /\ selected_note_id' = selected_note_id
        /\ now' = now + 1
        /\ next_uuid' = next_uuid + 1
        /\ last' = Ran("create", Some(note_id), "", outcome, TRUE)
        /\ UNCHANGED <<editing_note_id, rename_title, input_state>>

\* create_new_note with the note inserted before the save is checked
create_new_note_insert_first(outcome) ==
    LET new_note == NoteNew(next_uuid, now)
        note_id == new_note.id
    IN  /\ next_uuid <= MaxInit + MaxCreate
        /\ now < MaxNow
        /\ disk' = save_note(disk, new_note, outcome)
        /\ notes' = InsertFront(notes, new_note)
        /\ IF ~SaveOk(outcome)
           THEN UNCHANGED <<sb_notes, sb_selected, current_note, selected_note_id>>
           ELSE /\ sb_notes' = notes'
                /\ sb_selected' = Some(note_id)
                /\ current_note' = Some(new_note)
                /\ selected_note_id' = Some(note_id)
        /\ now' = now + 1
        /\ next_uuid' = next_uuid + 1
        /\ last' = Ran("create", Some(note_id), "", outcome, TRUE)
        /\ UNCHANGED <<editing_note_id, rename_title, input_state>>

\* AppView::create_new_note, run on SidebarNewNote
create_new_note(outcome) ==
    LET new_note == NoteNew(next_uuid, now)
        note_id == new_note.id
    IN  /\ next_uuid <= MaxInit + MaxCreate
        /\ now < MaxNow
        /\ disk' = save_note(disk, new_note, outcome)
        /\ IF ~SaveOk(outcome)
           THEN UNCHANGED <<notes, sb_notes, sb_selected, current_note, selected_note_id>>
           ELSE /\ notes' = InsertFront(notes, new_note)
                /\ sb_notes' = notes'
                /\ sb_selected' = Some(note_id)
                /\ current_note' = Some(new_note)
                /\ selected_note_id' = Some(note_id)
        /\ now' = now + 1
        /\ next_uuid' = next_uuid + 1
        /\ last' = Ran("create", Some(note_id), "", outcome, TRUE)
        /\ UNCHANGED <<editing_note_id, rename_title, input_state>>

\* delete_note with the editor left as it was
delete_note_keep_editor(note_id, io) ==
    /\ disk' = delete_note_file(disk, note_id, io)
    /\ IF DeleteResult(disk, note_id, io) # "ok"
       THEN UNCHANGED <<notes, sb_notes, editing_note_id, sb_selected,
                        current_note, selected_note_id>>
       ELSE /\ notes' = Retain(notes, note_id)
            /\ sb_notes' = notes'
            /\ editing_note_id' = None
            /\ sb_selected' = None
            /\ current_note' = current_note
            /\ selected_note_id' = None
    /\ last' = Ran("delete", Some(note_id), "", DeleteResult(disk, note_id, io), TRUE)
    /\ UNCHANGED <<rename_title, input_state, now, next_uuid>>

\* AppView::delete_note, run on SidebarDeleteNote(note_id)
delete_note(note_id, io) ==
    /\ disk' = delete_note_file(disk, note_id, io)
    /\ IF DeleteResult(disk, note_id, io) # "ok"
       THEN UNCHANGED <<notes, sb_notes, editing_note_id, sb_selected,
                        current_note, selected_note_id>>
       ELSE /\ notes' = Retain(notes, note_id)
            /\ sb_notes' = notes'
            /\ editing_note_id' = None
            /\ sb_selected' = None
            /\ current_note' = None
            /\ selected_note_id' = None
    /\ last' = Ran("delete", Some(note_id), "", DeleteResult(disk, note_id, io), TRUE)
    /\ UNCHANGED <<rename_title, input_state, now, next_uuid>>

\* the outcomes of the save_note call of rename_note: none when it is not reached
RenameOutcomes(note_id) ==
    IF Contains(notes, note_id) THEN SaveOutcomes ELSE {"none"}

\* rename_note with self.notes replaced before the save is checked
rename_note_mutate_first(note_id, new_title, outcome, editing_in) ==
    LET k == FindIndex(notes, note_id)
        note == [notes[k] EXCEPT !.title = new_title, !.updated_at = now]
        renamed == [notes EXCEPT ![k] = note]
    IN  IF k = 0
        THEN /\ editing_note_id' = editing_in
             /\ UNCHANGED <<disk, notes, sb_notes, current_note, now>>
        ELSE /\ now < MaxNow
             /\ now' = now + 1
             /\ disk' = save_note(disk, note, outcome)
             /\ notes' = renamed
             /\ IF ~SaveOk(outcome)
                THEN /\ editing_note_id' = editing_in
                     /\ UNCHANGED <<sb_notes, current_note>>
                ELSE /\ sb_notes' = notes'
                     /\ editing_note_id' = None
                     /\ current_note' =
                            IF Some(note_id) = selected_note_id
                            THEN Some(renamed[FindIndex(renamed, note_id)])
                            ELSE current_note

\* rename_note without the refresh of updated_at
rename_note_stale_time(note_id, new_title, outcome, editing_in) ==
    LET k == FindIndex(notes, note_id)
        note == [notes[k] EXCEPT !.title = new_title]
        renamed == [notes EXCEPT ![k] = note]
    IN  IF k = 0
        THEN /\ editing_note_id' = editing_in
             /\ UNCHANGED <<disk, notes, sb_notes, current_note, now>>
        ELSE /\ now < MaxNow
             /\ now' = now + 1
             /\ disk' = save_note(disk, note, outcome)
             /\ IF ~SaveOk(outcome)
                THEN /\ editing_note_id' = editing_in
                     /\ UNCHANGED <<notes, sb_notes, current_note>>
                ELSE /\ notes' = renamed
                     /\ sb_notes' = notes'
                     /\ editing_note_id' = None
                     /\ current_note' =
                            IF Some(note_id) = selected_note_id
                            THEN Some(renamed[FindIndex(renamed, note_id)])
                            ELSE current_note

\* rename_note moving the renamed note to the front of the list
rename_note_move_to_front(note_id, new_title, outcome, editing_in) ==
    LET k == FindIndex(notes, note_id)
        note == [notes[k] EXCEPT !.title = new_title, !.updated_at = now]
        renamed == InsertFront(Retain(notes, note_id), note)
    IN  IF k = 0
        THEN /\ editing_note_id' = editing_in
             /\ UNCHANGED <<disk, notes, sb_notes, current_note, now>>
        ELSE /\ now < MaxNow
             /\ now' = now + 1
             /\ disk' = save_note(disk, note, outcome)
             /\ IF ~SaveOk(outcome)
                THEN /\ editing_note_id' = editing_in
                     /\ UNCHANGED <<notes, sb_notes, current_note>>
                ELSE /\ notes' = renamed
                     /\ sb_notes' = notes'
                     /\ editing_note_id' = None
                     /\ current_note' =
                            IF Some(note_id) = selected_note_id
                            THEN Some(renamed[FindIndex(renamed, note_id)])
                            ELSE current_note

\* rename_note stamping created_at instead of updated_at
rename_note_touch_created(note_id, new_title, outcome, editing_in) ==
    LET k == FindIndex(notes, note_id)
        note == [notes[k] EXCEPT !.title = new_title, !.created_at = now]
        renamed == [notes EXCEPT ![k] = note]
    IN  IF k = 0
        THEN /\ editing_note_id' = editing_in
             /\ UNCHANGED <<disk, notes, sb_notes, current_note, now>>
        ELSE /\ now < MaxNow
             /\ now' = now + 1
             /\ disk' = save_note(disk, note, outcome)
             /\ IF ~SaveOk(outcome)
                THEN /\ editing_note_id' = editing_in
                     /\ UNCHANGED <<notes, sb_notes, current_note>>
                ELSE /\ notes' = renamed
                     /\ sb_notes' = notes'
                     /\ editing_note_id' = None
                     /\ current_note' =
                            IF Some(note_id) = selected_note_id
                            THEN Some(renamed[FindIndex(renamed, note_id)])
                            ELSE current_note

\* rename_note without the reload of the editor
rename_note_no_editor_reload(note_id, new_title, outcome, editing_in) ==
    LET k == FindIndex(notes, note_id)
        note == [notes[k] EXCEPT !.title = new_title, !.updated_at = now]
        renamed == [notes EXCEPT ![k] = note]
    IN  IF k = 0
        THEN /\ editing_note_id' = editing_in
             /\ UNCHANGED <<disk, notes, sb_notes, current_note, now>>
        ELSE /\ now < MaxNow
             /\ now' = now + 1
             /\ disk' = save_note(disk, note, outcome)
             /\ UNCHANGED current_note
             /\ IF ~SaveOk(outcome)
                THEN /\ editing_note_id' = editing_in
                     /\ UNCHANGED <<notes, sb_notes>>
                ELSE /\ notes' = renamed
                     /\ sb_notes' = notes'
                     /\ editing_note_id' = None

\* AppView::rename_note, run on SidebarRenameNote(note_id, new_title);
\* editing_in is the sidebar's editing_note_id when the handler starts
rename_note(note_id, new_title, outcome, editing_in) ==
    LET k == FindIndex(notes, note_id)
        note == [notes[k] EXCEPT !.title = new_title, !.updated_at = now]
        renamed == [notes EXCEPT ![k] = note]
    IN  IF k = 0
        THEN /\ editing_note_id' = editing_in
             /\ UNCHANGED <<disk, notes, sb_notes, current_note, now>>
        ELSE /\ now < MaxNow
             /\ now' = now + 1
             /\ disk' = save_note(disk, note, outcome)
             /\ IF ~SaveOk(outcome)
                THEN /\ editing_note_id' = editing_in
                     /\ UNCHANGED <<notes, sb_notes, current_note>>
                ELSE /\ notes' = renamed
                     /\ sb_notes' = notes'
                     /\ editing_note_id' = None
                     /\ current_note' =
                            IF Some(note_id) = selected_note_id
                            THEN Some(renamed[FindIndex(renamed, note_id)])
                            ELSE current_note

\* select_note with the selection set without the lookup
select_note_unchecked(note_id, sb_selected_in) ==
    LET k == FindIndex(notes, note_id)
    IN  /\ sb_selected' = Some(note_id)
        /\ selected_note_id' = Some(note_id)
        /\ current_note' = IF k = 0 THEN current_note ELSE Some(notes[k])

\* select_note without editor.load_note
select_note_no_editor_load(note_id, sb_selected_in) ==
    LET k == FindIndex(notes, note_id)
    IN  IF k = 0
        THEN /\ sb_selected' = sb_selected_in
             /\ UNCHANGED <<current_note, selected_note_id>>
        ELSE /\ UNCHANGED current_note
             /\ sb_selected' = Some(note_id)
             /\ selected_note_id' = Some(note_id)

\* select_note dropping the selection when the note is not found
select_note_clear_on_missing(note_id, sb_selected_in) ==
    LET k == FindIndex(notes, note_id)
    IN  IF k = 0
        THEN /\ sb_selected' = sb_selected_in
             /\ current_note' = None
             /\ selected_note_id' = None
        ELSE /\ current_note' = Some(notes[k])
             /\ sb_selected' = Some(note_id)
             /\ selected_note_id' = Some(note_id)

\* AppView::select_note, run on SidebarEvent(note_id); sb_selected_in is the
\* sidebar's selected_note_id when the handler starts
select_note(note_id, sb_selected_in) ==
    LET k == FindIndex(notes, note_id)
    IN  IF k = 0
        THEN /\ sb_selected' = sb_selected_in
             /\ UNCHANGED <<current_note, selected_note_id>>
        ELSE /\ current_note' = Some(notes[k])
             /\ sb_selected' = Some(note_id)
             /\ selected_note_id' = Some(note_id)

(***************************************************************************)
(* SidebarView's own handlers (views/sidebar.rs).                          *)
(***************************************************************************)
\* the click on a note row: the sidebar selects it and emits SidebarEvent
on_click(note_id) ==
    /\ select_note(note_id, Some(note_id))
    /\ last' = Ran("select", Some(note_id), "", "none", TRUE)
    /\ UNCHANGED <<disk, notes, sb_notes, editing_note_id, rename_title,
                   input_state, now, next_uuid>>

\* start_editing setting the identity and leaving the draft as it was
start_editing_identity_only(note_id) ==
    /\ editing_note_id' = Some(note_id)
    /\ last' = Ran("start_editing", Some(note_id), "", "none", FALSE)
    /\ UNCHANGED <<disk, notes, selected_note_id, current_note, sb_notes,
                   sb_selected, rename_title, input_state, now, next_uuid>>

\* SidebarView::start_editing
start_editing(note_id) ==
    LET k == FindIndex(sb_notes, note_id)
    IN  /\ editing_note_id' = Some(note_id)
        /\ IF k = 0
           THEN UNCHANGED <<rename_title, input_state>>
           ELSE /\ rename_title' = sb_notes[k].title
                /\ input_state' = Some(sb_notes[k].title)
        /\ last' = Ran("start_editing", Some(note_id), "", "none", FALSE)
        /\ UNCHANGED <<disk, notes, selected_note_id, current_note, sb_notes,
                       sb_selected, now, next_uuid>>

\* InputEvent::Change of the rename input
text_changed(value) ==
    /\ input_state # None
    /\ input_state' = Some(value)
    /\ rename_title' = value
    /\ last' = Ran("text_changed", None, value, "none", FALSE)
    /\ UNCHANGED <<disk, notes, selected_note_id, current_note, sb_notes,
                   sb_selected, editing_note_id, now, next_uuid>>

\* SidebarView::cancel_rename
cancel_rename ==
    /\ editing_note_id' = None
    /\ rename_title' = ""
    /\ input_state' = None
    /\ last' = Ran("cancel_rename", None, "", "none", FALSE)
    /\ UNCHANGED <<disk, notes, selected_note_id, current_note, sb_notes,
                   sb_selected, now, next_uuid>>

\* confirm_rename without the test of the draft
ConfirmResult_allow_empty ==
    IF editing_note_id # None
    THEN Some(<<editing_note_id[1], rename_title>>)
    ELSE None

\* what SidebarView::confirm_rename returns: Some(<<id, title>>) or None
ConfirmResult ==
    IF editing_note_id # None /\ rename_title # ""
    THEN Some(<<editing_note_id[1], rename_title>>)
    ELSE None

\* SidebarView::confirm_rename returning None: nothing is emitted
confirm_rename_none ==
    /\ ConfirmResult = None
    /\ editing_note_id' = None
    /\ IF editing_note_id # None
       THEN rename_title' = "" /\ input_state' = None
       ELSE UNCHANGED <<rename_title, input_state>>
    /\ last' = Ran("confirm_rename", editing_note_id, rename_title, "none", FALSE)
    /\ UNCHANGED <<disk, notes, selected_note_id, current_note, sb_notes,
                   sb_selected, now, next_uuid>>

\* SidebarView::confirm_rename returning Some: SidebarRenameNote is emitted and
\* AppView::rename_note handles it
confirm_rename_emit(outcome) ==
    /\ ConfirmResult # None
    /\ rename_title' = ""
    /\ input_state' = None
    /\ LET note_id == ConfirmResult[1][1]
           new_title == ConfirmResult[1][2]
       IN  /\ outcome \in RenameOutcomes(note_id)
           /\ rename_note(note_id, new_title, outcome, None)
           /\ last' = Ran("rename", Some(note_id), new_title, outcome, TRUE)
    /\ UNCHANGED <<selected_note_id, sb_selected, next_uuid>>

Next ==
    \/ \E outcome \in SaveOutcomes : create_new_note(outcome)
    \/ \E note_id \in Ids : \E io \in RemoveOutcomes : delete_note(note_id, io)
    \/ \E note_id \in Ids : on_click(note_id)
    \/ \E note_id \in Ids : start_editing(note_id)
    \/ \E value \in Titles : text_changed(value)
    \/ cancel_rename
    \/ confirm_rename_none
    \/ \E outcome \in SaveOutcomes \cup {"none"} : confirm_rename_emit(outcome)

Spec == Init /\ [][Next]_vars

TypeOK ==
    /\ \A i \in DOMAIN notes : notes[i].id \in Ids
    /\ Len(selected_note_id) <= 1
    /\ Len(current_note) <= 1
    /\ now \in StartTime..MaxNow

\* startup from a data directory in which every file parses as a note
InitLoaded == Init /\ \A i \in Ids : disk[i].kind # "garbage"

SpecLoaded == InitLoaded /\ [][Next]_vars

(***************************************************************************)
(* Properties of the controller.                                           *)
(***************************************************************************)
\* the note of the collection ns with identity note_id
NoteOf(ns, note_id) == ns[FindIndex(ns, note_id)]

Failed(outcome) == outcome \in {"fail", "fail_open", "fail_write"}

\* C1: after a Create whose save succeeded, the new note's identity is the
\* controller's selection and the identity of the note the editor displays,
\* and the new note is in the in-memory collection.
C1_CreateSelectsNewNote ==
    (last.op = "create" /\ last.outcome = "ok") =>
        /\ selected_note_id = last.id
        /\ current_note # None
        /\ current_note[1].id = last.id[1]
        /\ Contains(notes, last.id[1])
        /\ current_note[1] = NoteOf(notes, last.id[1])

C1_Witness ==
    /\ last.op = "create"
    /\ last.outcome = "ok"
    /\ last.selected_in # None
    /\ Len(notes) >= 2

\* C2: a successful Delete(id) of a note of the collection that is not the
\* selected note leaves the controller's selection and the editor's displayed
\* note as they were.
C2_DeleteOtherKeepsSelection ==
    [][(/\ last'.op = "delete"
        /\ last'.outcome = "ok"
        /\ Contains(notes, last'.id[1])
        /\ selected_note_id # last'.id)
       => (selected_note_id' = selected_note_id /\ current_note' = current_note)]_vars

\* C3: after a successful Delete(id) of the selected note, the selection is
\* empty, the editor displays no note and id is not in the collection.
C3_DeleteSelectedClears ==
    (last.op = "delete" /\ last.outcome = "ok" /\ last.selected_in = last.id) =>
        /\ selected_note_id = None
        /\ current_note = None
        /\ ~Contains(notes, last.id[1])

C3_Witness ==
    /\ last.op = "delete"
    /\ last.outcome = "ok"
    /\ last.selected_in = last.id
    /\ notes # <<>>

\* C4: the controller's selection is empty or the identity of a note of the
\* in-memory collection.
C4_SelectionInCollection ==
    selected_note_id = None \/ Contains(notes, selected_note_id[1])

C4_Witness ==
    /\ last.op = "select"
    /\ ~Contains(notes, last.id[1])
    /\ selected_note_id # None
    /\ \E i \in Ids : disk[i].kind = "garbage"

\* C5: started from a directory whose files all loaded, after every intent an
\* identity is in the collection exactly when its file exists, and the file
\* parses to the in-memory note, equal in every field.
C5_MemoryAgreesWithDisk ==
    \A i \in Ids :
        /\ Contains(notes, i) <=> Exists(disk, i)
        /\ Contains(notes, i) => FromJson(disk[i]) = Some(NoteOf(notes, i))

\* C6: a Create or Delete whose disk operation fails leaves the collection,
\* the selection, the editor's note and the sidebar's notes, selection and
\* rename state as they were.
C6_FailedCreateDeleteChangesNothing ==
    [][(last'.op \in {"create", "delete"} /\ Failed(last'.outcome))
       => UNCHANGED <<notes, selected_note_id, current_note, sb_notes, sb_selected,
                      editing_note_id, rename_title, input_state>>]_vars

C6_Witness ==
    /\ last.op = "create"
    /\ last.outcome = "fail_write"
    /\ editing_note_id # None
    /\ selected_note_id # None

\* C7: a Rename whose save fails leaves the collection (so the note's title
\* and updated_at) and the editor's displayed copy as they were.
C7_FailedRenameKeepsMemory ==
    [][(last'.op = "rename" /\ Failed(last'.outcome))
       => (notes' = notes /\ current_note' = current_note)]_vars

C7_Witness ==
    /\ last.op = "rename"
    /\ Failed(last.outcome)
    /\ Contains(notes, last.id[1])
    /\ NoteOf(notes, last.id[1]).title # last.title
    /\ selected_note_id = last.id

\* the identities Note::new has given out since startup
CreatedIds == (MaxInit + 1)..(next_uuid - 1)

\* C8: after a successful Rename(id, t) of a note this run created, every
\* reload of the directory yields a note id with title t and with
\* updated_at > created_at.
C8_RenamedNoteReloads ==
    (last.op = "rename" /\ last.outcome = "ok" /\ last.id[1] \in CreatedIds) =>
        \A order \in Perms(Entries(disk)) :
            LET loaded == load_all_notes(disk, order)
            IN  /\ Contains(loaded, last.id[1])
                /\ NoteOf(loaded, last.id[1]).title = last.title
                /\ NoteOf(loaded, last.id[1]).updated_at
                       > NoteOf(loaded, last.id[1]).created_at

C8_Witness ==
    /\ last.op = "rename"
    /\ last.outcome = "ok"
    /\ last.id[1] \in CreatedIds
    /\ Cardinality(Entries(disk)) >= 2

(***************************************************************************)
(* Storage on its own: save_note, delete_note and load_all_notes called    *)
(* with any note and any identity, on any directory earlier calls left.    *)
(***************************************************************************)
StoreIds == 1..(MaxInit + 1)

\* the notes handed to save_note
StoreNotes ==
    {n \in {Note(i, tc[1], tc[2], c, u) :
                i \in StoreIds, tc \in {<<"a", "c">>, <<"b", "">>},
                c \in InitTimes, u \in InitTimes} : n.updated_at >= n.created_at}

Called(op, id, note, io, outcome, overwrote, repeated) ==
    [op |-> op, id |-> id, note |-> note, io |-> io, outcome |-> outcome,
     overwrote |-> overwrote, repeated |-> repeated]

StorageInit ==
    /\ disk \in InitDisks
    /\ notes = <<>>
    /\ selected_note_id = None
    /\ current_note = None
    /\ sb_notes = <<>>
    /\ sb_selected = None
    /\ editing_note_id = None
    /\ rename_title = ""
    /\ input_state = None
    /\ now = StartTime
    /\ next_uuid = MaxInit + 1
    /\ last = Called("new", None, None, "ok", "ok", FALSE, FALSE)

StorageUnchanged ==
    UNCHANGED <<selected_note_id, current_note, sb_notes, sb_selected,
                editing_note_id, rename_title, input_state, now, next_uuid>>

\* a call of Storage::save_note
storage_save(note, io) ==
    /\ disk' = save_note(disk, note, io)
    /\ last' = Called("save", Some(note.id), IF SaveOk(io) THEN Some(note) ELSE None,
                      io, IF SaveOk(io) THEN "ok" ELSE "fail",
                      disk[note.id].kind = "json" /\ disk[note.id] # ToJson(note),
                      FALSE)
    /\ notes' = <<>>
    /\ StorageUnchanged

\* a call of Storage::delete_note
storage_delete(note_id, io) ==
    /\ disk' = delete_note_file(disk, note_id, io)
    /\ last' = Called("delete", Some(note_id), None, io,
                      DeleteResult(disk, note_id, io), FALSE,
                      last.op = "delete" /\ last.id = Some(note_id) /\ last.outcome = "ok")
    /\ notes' = <<>>
    /\ StorageUnchanged

\* read_dir and every read_to_string succeed, or one of them fails
ReadOutcomes == {"ok", "fail"}

\* a call of Storage::load_all_notes; notes holds what the call returned
\* until the next call of save_note or delete_note, and a failed read makes
\* the call return Err with no notes at all
storage_load(order, io) ==
    /\ notes' = IF io = "ok" THEN load_all_notes(disk, order) ELSE <<>>
    /\ last' = Called("load", None, None, io, io, FALSE, FALSE)
    /\ UNCHANGED disk
    /\ StorageUnchanged

StorageNext ==
    \/ \E note \in StoreNotes : \E io \in SaveOutcomes : storage_save(note, io)
    \/ \E note_id \in StoreIds : \E io \in RemoveOutcomes : storage_delete(note_id, io)
    \/ \E order \in Perms(Entries(disk)) : \E io \in ReadOutcomes : storage_load(order, io)

StorageSpec == StorageInit /\ [][StorageNext]_vars

\* C9: after a successful save(N), every load_all returns exactly one note
\* with N's identity and that note equals N in every field, also when the
\* save replaced an earlier file of that identity.
C9_SaveThenLoadRoundTrip ==
    (last.op = "save" /\ last.outcome = "ok") =>
        \A order \in Perms(Entries(disk)) :
            LET loaded == load_all_notes(disk, order)
                N == last.note[1]
            IN  /\ Cardinality({k \in DOMAIN loaded : loaded[k].id = N.id}) = 1
                /\ NoteOf(loaded, N.id).id = N.id
                /\ NoteOf(loaded, N.id).title = N.title
                /\ NoteOf(loaded, N.id).content = N.content
                /\ NoteOf(loaded, N.id).created_at = N.created_at
                /\ NoteOf(loaded, N.id).updated_at = N.updated_at

C9_Witness ==
    /\ last.op = "save"
    /\ last.outcome = "ok"
    /\ last.overwrote
    /\ Cardinality(Entries(disk)) >= 2

\* C10: delete(id) on an identity without a file, and so a second delete in
\* a row, returns success and changes nothing; delete never changes another
\* note's file; a successful delete leaves no file; and it fails only when
\* the file exists and removing it fails.
C10_DeleteIdempotent ==
    [][last'.op = "delete" =>
        LET note_id == last'.id[1]
        IN  /\ \A j \in Ids \ {note_id} : disk'[j] = disk[j]
            /\ ~Exists(disk, note_id) => (last'.outcome = "ok" /\ disk' = disk)
            /\ last'.repeated => last'.outcome = "ok"
            /\ last'.outcome = "ok" => ~Exists(disk', note_id)
            /\ last'.outcome # "ok" =>
                   (Exists(disk, note_id) /\ last'.io = "fail" /\ disk' = disk)]_vars

C10_Witness ==
    /\ last.op = "delete"
    /\ last.repeated
    /\ last.outcome = "ok"
    /\ last.io = "fail"
    /\ Entries(disk) # {}

\* the identities whose file in directory d holds a note
ValidIds(d) == {i \in DOMAIN d : d[i].kind = "json"}

MaxExtra == 2

\* the 50 of chars().take(50) and of len() > 50
PreviewLimit == 50

Char(ch, bytes) == [ch |-> ch, bytes |-> bytes]

\* a content of n characters whose first m take three bytes each (as the
\* characters of the default title do) and whose others take one
Content(n, m) == [i \in 1..n |-> Char(i, IF i <= m THEN 3 ELSE 1)]

PreviewInputs ==
    {Content(n, m) : n \in 0..(PreviewLimit + MaxExtra), m \in 0..(PreviewLimit + MaxExtra)}

\* the literal of preview's empty branch and the "..." of its format!
Placeholder == <<Char(-1, 3), Char(-2, 3), Char(-3, 3)>>
Ellipsis == <<Char(0, 1), Char(0, 1), Char(0, 1)>>

RECURSIVE ByteLen(_)
\* String::len
ByteLen(s) == IF s = <<>> THEN 0 ELSE Head(s).bytes + ByteLen(Tail(s))

\* chars().take(n).collect()
Take(s, n) == SubSeq(s, 1, IF Len(s) < n THEN Len(s) ELSE n)

\* Note::preview
preview(content) ==
    IF ByteLen(content) = 0
    THEN Placeholder
    ELSE LET p == Take(content, PreviewLimit)
         IN  IF ByteLen(content) > PreviewLimit THEN p \o Ellipsis ELSE p

PreviewInit ==
    /\ disk = [i \in Ids |-> Absent]
    /\ notes = <<>>
    /\ selected_note_id = None
    /\ current_note = None
    /\ sb_notes = <<>>
    /\ sb_selected = None
    /\ editing_note_id = None
    /\ rename_title = ""
    /\ input_state = None
    /\ now = StartTime
    /\ next_uuid = MaxInit + 1
    /\ last \in {[op |-> "note", content |-> c, result |-> <<>>] : c \in PreviewInputs}

\* a call of Note::preview on the note
preview_call ==
    /\ last.op = "note"
    /\ last' = [op |-> "preview", content |-> last.content,
                result |-> preview(last.content)]
    /\ UNCHANGED <<disk, notes, selected_note_id, current_note, sb_notes,
                   sb_selected, editing_note_id, rename_title, input_state,
                   now, next_uuid>>

PreviewNext == preview_call

PreviewSpec == PreviewInit /\ [][PreviewNext]_vars

\* C12: preview() is the placeholder for an empty content, the content
\* itself for a content of at most 50 characters, and the first 50
\* characters followed by the ellipsis for a longer one, whatever number of
\* bytes the characters take.
C12_PreviewByCharacters ==
    last.op = "preview" =>
        LET c == last.content
        IN  /\ c = <<>> => last.result = Placeholder
            /\ (c # <<>> /\ Len(c) <= PreviewLimit) => last.result = c
            /\ Len(c) > PreviewLimit =>
                   last.result = SubSeq(c, 1, PreviewLimit) \o Ellipsis

\* C13: Select(id) and Rename(id, t) with an identity that is not in the
\* collection change neither the collection, nor the controller's selection,
\* nor the editor's note, nor any file.
C13_StaleSelectRenameNoOp ==
    [][(last'.op \in {"select", "rename"} /\ ~Contains(notes, last'.id[1])) =>
        UNCHANGED <<notes, selected_note_id, current_note, disk>>]_vars

C13_Witness ==
    /\ last.op = "rename"
    /\ ~Contains(notes, last.id[1])
    /\ selected_note_id # None
    /\ current_note # None

\* C14: Delete(id) with an identity that is not in the collection changes
\* neither the collection, nor the controller's selection, nor the editor's
\* note, nor the sidebar's rename state.
C14_StaleDeleteIgnored ==
    [][(last'.op = "delete" /\ ~Contains(notes, last'.id[1])) =>
        UNCHANGED <<notes, selected_note_id, current_note, editing_note_id,
                    rename_title, input_state>>]_vars

\* C15: the sidebar has at most one note in rename mode, and after
\* confirm_rename or cancel_rename, from any state and with any draft, the
\* rename identity and the draft title are both cleared.
C15_ConfirmCancelClear ==
    /\ Len(editing_note_id) <= 1
    /\ last.op \in {"confirm_rename", "rename", "cancel_rename"} =>
           (editing_note_id = None /\ rename_title = "")

\* C16: confirming emits the Rename intent exactly when the sidebar is in
\* rename mode with a non-empty draft, and the intent carries the identity
\* being renamed and the draft; a confirm with an empty draft, a confirm
\* outside rename mode and a cancel emit nothing.
C16_ConfirmEmitsRename ==
    [][last'.op \in {"confirm_rename", "rename", "cancel_rename"} =>
        /\ last'.emitted <=>
               (/\ last'.op # "cancel_rename"
                /\ editing_note_id # None
                /\ rename_title # "")
        /\ last'.emitted =>
               (last'.id = editing_note_id /\ last'.title = rename_title)]_vars

C16_Witness ==
    /\ last.op = "rename"
    /\ last.emitted
    /\ last.title = "b"
    /\ last.outcome = "ok"
    /\ NoteOf(notes, last.id[1]).title = "b"

\* C17: start_rename(id) of a listed note leaves the sidebar with rename
\* identity id and a draft equal to the note's current title, whatever the
\* identity and draft were before; text_changed(t) makes the draft t, keeps
\* the identity and everything outside the sidebar's draft, and emits nothing.
C17_StartRenameThenType ==
    [][/\ (last'.op = "start_editing" /\ Contains(notes, last'.id[1])) =>
              /\ editing_note_id' = last'.id
              /\ rename_title' = NoteOf(notes, last'.id[1]).title
              /\ ~last'.emitted
       /\ last'.op = "text_changed" =>
              /\ rename_title' = last'.title
              /\ ~last'.emitted
              /\ UNCHANGED <<editing_note_id, disk, notes, selected_note_id,
                             current_note, sb_notes, sb_selected>>]_vars

C17_Witness ==
    /\ last.op = "text_changed"
    /\ editing_note_id # None
    /\ Contains(notes, editing_note_id[1])
    /\ NoteOf(notes, editing_note_id[1]).title = "a"
    /\ rename_title = "b"

\* C18: after a successful Rename(id, t) the collection's note id has title
\* t and the time of the rename as updated_at, the editor, if it shows note
\* id, holds the updated note, and the sidebar is not in rename mode.
C18_RenameUpdatesAll ==
    (last.op = "rename" /\ last.outcome = "ok") =>
        LET note_id == last.id[1]
        IN  /\ Contains(notes, note_id)
            /\ NoteOf(notes, note_id).title = last.title
            /\ NoteOf(notes, note_id).updated_at = now - 1
            /\ (current_note # None /\ current_note[1].id = note_id) =>
                   current_note[1] = NoteOf(notes, note_id)
            /\ editing_note_id = None

C18_Witness ==
    /\ last.op = "rename"
    /\ last.outcome = "ok"
    /\ last.title = "b"
    /\ current_note # None
    /\ current_note[1].id = last.id[1]
    /\ current_note[1].title = "b"
    /\ Len(notes) >= 2

\* C19: while the sidebar renames note a, a successful Select(b) or
\* Delete(b) of another note b of the collection leaves the rename identity a.
C19_OtherNoteKeepsRenameMode ==
    [][(/\ last'.op \in {"select", "delete"}
        /\ last'.op = "delete" => last'.outcome = "ok"
        /\ Contains(notes, last'.id[1])
        /\ editing_note_id # None
        /\ Contains(notes, editing_note_id[1])
        /\ editing_note_id # last'.id) =>
        editing_note_id' = editing_note_id]_vars

\* C20: every note this program created has updated_at >= created_at, in
\* the collection and in its file, after any Creates and Renames; a Create
\* stamps both times with the time of the Create, and a successful Rename
\* sets updated_at, in the collection and in the file, to the time of the
\* Rename.
C20_UpdatedNotBeforeCreated ==
    /\ \A k \in DOMAIN notes :
           notes[k].id \in CreatedIds => notes[k].updated_at >= notes[k].created_at
    /\ \A i \in CreatedIds :
           disk[i].kind = "json" =>
               FromJson(disk[i])[1].updated_at >= FromJson(disk[i])[1].created_at
    /\ (last.op = "create" /\ last.outcome = "ok") =>
           /\ NoteOf(notes, last.id[1]).created_at = now - 1
           /\ NoteOf(notes, last.id[1]).updated_at = now - 1
    /\ (last.op = "rename" /\ last.outcome = "ok") =>
           /\ NoteOf(notes, last.id[1]).updated_at = now - 1
           /\ FromJson(disk[last.id[1]])[1].updated_at = now - 1

C20_Witness ==
    /\ last.op = "rename"
    /\ last.outcome = "ok"
    /\ last.id[1] \in CreatedIds
    /\ NoteOf(notes, last.id[1]).updated_at > NoteOf(notes, last.id[1]).created_at
    /\ FromJson(disk[last.id[1]]) = Some(NoteOf(notes, last.id[1]))

\* C21: load_all_notes returns the notes that parsed sorted by updated_at,
\* latest first: of two adjacent notes of the result the earlier one's
\* updated_at is not less than the later one's.
C21_LoadSortedByUpdatedDesc ==
    (last.op = "load" /\ last.outcome = "ok") =>
        \A k \in 1..(Len(notes) - 1) :
            notes[k].updated_at >= notes[k + 1].updated_at

C21_Witness ==
    /\ last.op = "load"
    /\ last.outcome = "ok"
    /\ Len(notes) >= 2
    /\ notes[1].updated_at > notes[2].updated_at
    /\ notes[1].id > notes[2].id

\* C22: after startup and after every intent the editor shows a note exactly
\* when the controller's selection is non-empty; the note shown then has the
\* selected identity and equals, field by field, the collection's note of
\* that identity.
C22_EditorShowsSelection ==
    /\ current_note = None <=> selected_note_id = None
    /\ selected_note_id # None =>
           /\ current_note[1].id = selected_note_id[1]
           /\ Contains(notes, selected_note_id[1])
           /\ current_note[1] = NoteOf(notes, selected_note_id[1])

C22_Witness ==
    /\ last.op = "select"
    /\ selected_note_id = last.id
    /\ last.selected_in # last.id
    /\ current_note # None
    /\ current_note[1].title = "b"
    /\ Len(notes) >= 2

\* C23: after startup and after every intent, failed ones too, the sidebar's
\* notes equal the controller's collection and the sidebar's selected
\* identity equals the controller's selection, also after a click, where the
\* sidebar sets its own selection before it emits the Select intent.
C23_SidebarMirrorsController ==
    /\ sb_notes = notes
    /\ sb_selected = selected_note_id

\* C24: whenever the sidebar has no rename identity, the draft title is
\* empty and no rename input is held, after any start_rename, text_changed,
\* confirm, cancel and set_editing(None) from the controller.
C24_BrowsingHoldsNoDraft ==
    editing_note_id = None => (rename_title = "" /\ input_state = None)

\* C25: when the files hold exactly the collection's notes, as they do after
\* successful Creates, Renames and Deletes, the collection is in the order
\* load_all_notes returns for these files (for some enumeration order, which
\* only matters between notes of equal updated_at), so that a restart shows
\* the same list and selects the same first note.
C25_MemoryOrderIsLoadOrder ==
    (\A i \in Ids :
        FromJson(disk[i]) = IF Contains(notes, i) THEN Some(NoteOf(notes, i)) ELSE None) =>
        \E order \in Perms(Entries(disk)) : load_all_notes(disk, order) = notes

\* C26: a successful Rename(id, t) changes nothing but the title and the
\* updated_at of note id: the note keeps its identity, content, created_at
\* and place in the list, the list keeps its length and every other note,
\* the controller's selection stays, and so does every file other than
\* <id>.json.
C26_RenameFrame ==
    [][(last'.op = "rename" /\ last'.outcome = "ok") =>
        LET note_id == last'.id[1]
            k == FindIndex(notes, note_id)
        IN  /\ k # 0
            /\ Len(notes') = Len(notes)
            /\ \A j \in DOMAIN notes : j # k => notes'[j] = notes[j]
            /\ notes'[k].id = notes[k].id
            /\ notes'[k].content = notes[k].content
            /\ notes'[k].created_at = notes[k].created_at
            /\ selected_note_id' = selected_note_id
            /\ \A i \in Ids \ {note_id} : disk'[i] = disk[i]]_vars

C26_Witness ==
    /\ last.op = "rename"
    /\ last.outcome = "ok"
    /\ last.title = "b"
    /\ Len(notes) >= 2
    /\ FindIndex(notes, last.id[1]) = 2
    /\ notes[2].title = "b"
    /\ selected_note_id = Some(notes[1].id)

====
